---- MODULE Spec2Model ----
(***************************************************************************)
(* Shopify-SumUp payment gateway (server.js).                              *)
(*                                                                         *)
(* The module models                                                       *)
(*   - the payment provider's record of one checkout session (SumUp),      *)
(*   - the server handlers POST /api/save-customer-data and                *)
(*     GET /api/check-payment/:checkoutId, split at their awaits,          *)
(*   - createShopifyOrder and the order-creation calls it posts,           *)
(*   - the script of the checkout page served by GET /checkout: the form,  *)
(*     the widget's onResponse callback, startPolling, checkPaymentStatus  *)
(*     and the visibilitychange listener,                                  *)
(*   - GET /checkout itself with the session store pendingOrders, the      *)
(*     webhook and the two result pages.                                   *)
(*                                                                         *)
(* Four specifications share the variables:                                *)
(*   Spec         the server under arbitrary HTTP requests,                *)
(*   SpecPage     the checkout page against the status endpoint,           *)
(*   SpecOrder    createShopifyOrder called directly on arbitrary inputs,  *)
(*   SpecGateway  session creation beside the other routes.                *)
(***************************************************************************)
EXTENDS Integers, Sequences, FiniteSets, TLC

\* ---------------------------------------------------------------- bounds

\* HTTP requests the server handles in one behaviour.
MaxRequests == 2
\* Entries of the provider's transaction list.
MaxTxns == 2
\* Calls of startPolling on one page.
MaxStarts == 2
\* Calls of checkPaymentStatus on one page.
MaxChecks == 3
\* Direct calls of createShopifyOrder in SpecOrder.
MaxCalls == 2
\* GET /checkout requests the server handles in one behaviour.
MaxCheckouts == 2
\* Milliseconds the server's clock advances in one behaviour.
MaxNow == 2
\* Webhook notifications and result-page requests in one behaviour.
MaxAcks == 2
\* HTTP requests of every route in one behaviour of SpecGateway.
MaxArrivals == 3

\* ----------------------------------------------------------- JS values

\* A missing property or an undefined variable.
Absent == "undefined"

\* JavaScript truthiness of the string values used here.
Truthy(v) == v \notin {Absent, "", "null"}

\* The id the provider assigned to the checkout session.
CheckoutId == "co1"

\* ------------------------------------------------------ provider (SumUp)

RawStatuses == {"PENDING", "FAILED", "PAID", "EXPIRED"}

Txn(status, code) == [status |-> status, transaction_code |-> code]

TxnValues ==
    { Txn("SUCCESSFUL", "TXS"), Txn("SUCCESSFUL", Absent), Txn("FAILED", "TXF") }

\* The provider's answer to GET /checkouts/:id. hasTransactions is FALSE when
\* the response carries no transactions property.
Checkout(status, hasTransactions, transactions) ==
    [status |-> status, hasTransactions |-> hasTransactions,
     transactions |-> transactions]

\* Array.prototype.find(txn => txn.status === 'SUCCESSFUL'): the first match,
\* scanning from index i; the empty object when there is none.
NoTxn == Txn(Absent, Absent)

RECURSIVE FindSuccessfulFrom(_, _)
FindSuccessfulFrom(txns, i) ==
    IF i > Len(txns) THEN NoTxn
    ELSE IF txns[i].status = "SUCCESSFUL" THEN txns[i]
    ELSE FindSuccessfulFrom(txns, i + 1)

FindSuccessful(txns) == FindSuccessfulFrom(txns, 1)

\* checkout.transactions && checkout.transactions.length > 0
HasTransactions(c) == c.hasTransactions /\ Len(c.transactions) > 0

\* ------------------------------------------------- customers and carts

CustomerFields ==
    {"firstName", "lastName", "email", "phone", "address", "postalCode",
     "city", "country"}

RequiredFields == CustomerFields \ {"phone"}

\* customerData as the request body carries it; kind "undefined" is a body
\* without the property, kind "object" an object whose missing properties
\* are Absent.
UndefinedCustomer == [kind |-> "undefined", fields |-> [f \in CustomerFields |-> Absent]]

\* let customerData = {}
EmptyCustomer == [kind |-> "object", fields |-> [f \in CustomerFields |-> Absent]]

Item(variant, quantity, price) ==
    [variant_id |-> variant, quantity |-> quantity, price |-> price]

\* cartData: kind "null" (let cartData = null), or an object with or without
\* an items array.
NullCart ==
    [kind |-> "null", hasItems |-> FALSE, items |-> << >>, total_price |-> 0,
     currency |-> Absent]

NoItemsCart ==
    [kind |-> "object", hasItems |-> FALSE, items |-> << >>, total_price |-> 0,
     currency |-> Absent]

EmptyCart ==
    [kind |-> "object", hasItems |-> TRUE, items |-> << >>, total_price |-> 0,
     currency |-> "EUR"]

Cart1 ==
    [kind |-> "object", hasItems |-> TRUE, items |-> << Item("v1", 1, 1000) >>,
     total_price |-> 1000, currency |-> "EUR"]

Cart2 ==
    [kind |-> "object", hasItems |-> TRUE,
     items |-> << Item("v1", 2, 1999), Item("v2", 1, 5) >>,
     total_price |-> 4003, currency |-> Absent]

\* CartHasItems without the length test.
CartHasItemsField(cart) == cart.kind = "object" /\ cart.hasItems

\* cartData && cartData.items && cartData.items.length > 0
CartHasItems(cart) ==
    cart.kind = "object" /\ cart.hasItems /\ Len(cart.items) > 0

\* Pad2 without the leading zero.
Pad2Unpadded(n) == ToString(n)

\* (n / 100).toFixed(2) for a non-negative integer n of minor units.
Pad2(n) == IF n < 10 THEN "0" \o ToString(n) ELSE ToString(n)

ToFixed2(n) == ToString(n \div 100) \o "." \o Pad2(n % 100)

\* ------------------------------------------------------------ variables

VARIABLES
    checkout,       \* the provider's record of the session
    reqs,           \* the server's requests, each with its position
    orderCalls,     \* the order-creation calls posted to the commerce platform
    customerData,   \* page script: let customerData
    cartData,       \* page script: let cartData
    pollingInterval,\* page script: let pollingInterval (0 is null)
    activeIntervals,\* handles of the interval timers that are running
    pendingTimeouts,\* 120 s timeouts set by startPolling, not yet fired
    nStarts,        \* calls of startPolling so far
    nChecks,        \* calls of checkPaymentStatus so far
    checksInFlight, \* status fetches awaiting their response
    savesInFlight,  \* confirmation fetches awaiting their response
    pageSaves,      \* bodies of the confirmation requests the page sent
    lastStatus,     \* what the last status fetch ended with: data.status, or "threw"
    loadingShown, successShown, errorMsg,  \* the three message boxes
    redirectTimers, \* pending 2 s redirect timeouts
    location,       \* window.location: "checkout" until the redirect
    terminalSeen,   \* a status response was PAID or FAILED since the last start
    timedOut,       \* a 120 s timeout fired with no terminal status seen
    pendingOrders,  \* the session store: const pendingOrders = new Map()
    checkoutReqs,   \* the GET /checkout requests, each with its position
    now,            \* the server's clock: Date.now()
    nSessions,      \* sessions the provider has opened (POST /checkouts answered 2xx)
    acks            \* answers of the webhook and of the two result pages

providerVars == << checkout >>

serverVars == << reqs, orderCalls >>

pageVars ==
    << customerData, cartData, pollingInterval, activeIntervals,
       pendingTimeouts, nStarts, nChecks, checksInFlight, savesInFlight,
       pageSaves, lastStatus, loadingShown, successShown, errorMsg,
       redirectTimers, location, terminalSeen, timedOut >>

gatewayVars == << pendingOrders, checkoutReqs, now, nSessions, acks >>

vars == << providerVars, serverVars, pageVars, gatewayVars >>

\* ------------------------------------------------------------- provider

\* The provider changes the session's status as the payment proceeds.
ProviderSetStatus(s) ==
    /\ checkout.status /= s
    /\ checkout' = [checkout EXCEPT !.status = s]
    /\ UNCHANGED << serverVars, pageVars, gatewayVars >>

\* The provider records a payment attempt in the session's transaction list.
ProviderAddTxn(t) ==
    /\ Len(checkout.transactions) < MaxTxns
    /\ checkout' = [checkout EXCEPT !.hasTransactions = TRUE,
                                    !.transactions = Append(@, t)]
    /\ UNCHANGED << serverVars, pageVars, gatewayVars >>

\* The provider starts to report an (empty) transaction list.
ProviderEmptyTxns ==
    /\ ~checkout.hasTransactions
    /\ checkout' = [checkout EXCEPT !.hasTransactions = TRUE]
    /\ UNCHANGED << serverVars, pageVars, gatewayVars >>

Provider ==
    \/ \E s \in RawStatuses : ProviderSetStatus(s)
    \/ \E t \in TxnValues : ProviderAddTxn(t)
    \/ ProviderEmptyTxns

\* ------------------------------------------------- createShopifyOrder

\* customerData.phone || ''
OrEmpty(v) == IF Truthy(v) THEN v ELSE ""

Address(c) ==
    [first_name |-> c.fields.firstName, last_name |-> c.fields.lastName,
     address1 |-> c.fields.address, phone |-> OrEmpty(c.fields.phone),
     city |-> c.fields.city, zip |-> c.fields.postalCode,
     country |-> c.fields.country]

LineItems(cart) ==
    [k \in 1..Len(cart.items) |->
        [variant_id |-> cart.items[k].variant_id,
         quantity |-> cart.items[k].quantity,
         price |-> ToFixed2(cart.items[k].price)]]

\* transactionData.transaction_code || checkoutId
Authorization(transactionData, checkoutId) ==
    IF Truthy(transactionData.transaction_code)
    THEN transactionData.transaction_code
    ELSE checkoutId

\* The orderData object createShopifyOrder posts.
OrderData(customer, cart, checkoutId, transactionData) ==
    [email |-> customer.fields.email,
     financial_status |-> "paid",
     checkoutId |-> checkoutId,
     line_items |-> LineItems(cart),
     customer |-> [first_name |-> customer.fields.firstName,
                   last_name |-> customer.fields.lastName,
                   email |-> customer.fields.email,
                   phone |-> OrEmpty(customer.fields.phone)],
     billing_address |-> Address(customer),
     shipping_address |-> Address(customer),
     transaction |-> [kind |-> "sale", status |-> "success",
                      amount |-> ToFixed2(cart.total_price),
                      currency |-> IF Truthy(cart.currency) THEN cart.currency ELSE "EUR",
                      gateway |-> "SumUp",
                      authorization |-> Authorization(transactionData, checkoutId)]]

\* Building orderData throws a TypeError when customerData is undefined
\* (customerData.email) or cartData has no items array (cartData.items.map).
\* Nothing else in createShopifyOrder rejects its arguments.
OrderDataThrows(customer, cart) ==
    \/ customer.kind = "undefined"
    \/ cart.kind = "null"
    \/ ~cart.hasItems

\* ------------------------------------------------------ server requests

Resp(http, status) == [httpStatus |-> http, status |-> status]

NoResp == Resp(0, Absent)

\* A request (or a direct call of createShopifyOrder) at its first await.
Request(kind, pc, customer, cart, transactionData) ==
    [kind |-> kind, pc |-> pc, checkoutId |-> CheckoutId,
     customerData |-> customer, cartData |-> cart,
     transactionData |-> transactionData,
     rawStatus |-> Absent, seenStatus |-> Absent,
     nProviderCalls |-> IF kind = "direct" THEN 0 ELSE 1,
     nOrderCalls |-> 0, shopify |-> "none", result |-> "pending",
     resp |-> NoResp]

\* One entry of orderCalls: the axios.post of createShopifyOrder.
OrderCall(i, order) == [req |-> i, order |-> order]

Reqs(kind, pc) == { i \in 1..Len(reqs) : reqs[i].kind = kind /\ reqs[i].pc = pc }

\* createShopifyOrder up to its await, called by request i: the TypeError is
\* caught, logged and rethrown to the caller (thrown = TRUE); otherwise the
\* order is posted.
CreateShopifyOrderCall(r, i) ==
    IF OrderDataThrows(r.customerData, r.cartData)
    THEN [thrown |-> TRUE, posted |-> << >>]
    ELSE [thrown |-> FALSE,
          posted |-> << OrderCall(i, OrderData(r.customerData, r.cartData,
                                               r.checkoutId, r.transactionData)) >>]

\* ------------------------------------ POST /api/save-customer-data

\* The handler's transactionData: the first SUCCESSFUL transaction, or {}.
SaveTransactionData(c) ==
    IF HasTransactions(c) THEN FindSuccessful(c.transactions) ELSE NoTxn

\* ActualStatus with the override applied to a PENDING session only.
ActualStatusPendingOnly(c) ==
    IF c.status = "PENDING" /\ HasTransactions(c)
       /\ FindSuccessful(c.transactions) /= NoTxn
    THEN "PAID"
    ELSE c.status

\* The status the status endpoint reports (actualStatus): PAID when the
\* transaction list holds a SUCCESSFUL entry, the raw status otherwise.
ActualStatus(c) ==
    IF HasTransactions(c) /\ FindSuccessful(c.transactions) /= NoTxn
    THEN "PAID"
    ELSE c.status

\* SaveOrderFailed as the outer catch would answer.
SaveOrderFailedAsError == Resp(500, "error")

\* The handler's answers.
SaveOrderCreated == Resp(200, "success")

SaveOrderFailed == Resp(200, "partial_success")

SaveNoCart == Resp(200, "success")

\* SaveError as the answer of a request without a cart.
SaveErrorAsSuccess == Resp(200, "success")

SaveError == Resp(500, "error")

\* A request arrives; the handler reads the body and issues the provider
\* lookup (its first await).
SaveCustomerDataReceive(customer, cart) ==
    /\ Len(reqs) < MaxRequests
    /\ reqs' = Append(reqs, Request("save", "awaitProvider", customer, cart, NoTxn))
    /\ UNCHANGED << providerVars, orderCalls, pageVars, gatewayVars >>

\* The provider lookup fails: the outer catch answers 500.
SaveProviderFail(i) ==
    /\ i \in Reqs("save", "awaitProvider")
    /\ reqs' = [reqs EXCEPT ![i].pc = "done", ![i].resp = SaveError]
    /\ UNCHANGED << providerVars, orderCalls, pageVars, gatewayVars >>

\* The provider lookup succeeds with the session as it is now. The handler
\* picks transactionData and, for a cart with items, calls createShopifyOrder,
\* which posts the order (second await) unless building it throws; without
\* items it answers at once.
SaveProviderOk(i) ==
    /\ i \in Reqs("save", "awaitProvider")
    /\ LET r == [reqs[i] EXCEPT !.transactionData = SaveTransactionData(checkout),
                               !.seenStatus = ActualStatus(checkout)]
           call == CreateShopifyOrderCall(r, i)
       IN  IF CartHasItems(r.cartData)
           THEN IF call.thrown
                THEN /\ reqs' = [reqs EXCEPT ![i] = [r EXCEPT !.pc = "done",
                                                             !.resp = SaveOrderFailed]]
                     /\ UNCHANGED orderCalls
                ELSE /\ reqs' = [reqs EXCEPT ![i] = [r EXCEPT !.pc = "awaitShopify",
                                                             !.nOrderCalls = @ + 1]]
                     /\ orderCalls' = orderCalls \o call.posted
           ELSE /\ reqs' = [reqs EXCEPT ![i] = [r EXCEPT !.pc = "done",
                                                        !.resp = SaveNoCart]]
                /\ UNCHANGED orderCalls
    /\ UNCHANGED << providerVars, pageVars, gatewayVars >>

\* The commerce platform accepts the order: createShopifyOrder returns it and
\* the handler (or the direct caller) has its result.
ShopifyOk(i) ==
    /\ i \in Reqs("save", "awaitShopify") \cup Reqs("direct", "awaitShopify")
    /\ reqs' = [reqs EXCEPT ![i].pc = "done", ![i].shopify = "ok",
                            ![i].result = "returned",
                            ![i].resp = IF reqs[i].kind = "save"
                                        THEN SaveOrderCreated ELSE NoResp]
    /\ UNCHANGED << providerVars, orderCalls, pageVars, gatewayVars >>

\* The order-creation call fails: createShopifyOrder logs and rethrows, and
\* the handler's inner catch answers.
ShopifyFail(i) ==
    /\ i \in Reqs("save", "awaitShopify") \cup Reqs("direct", "awaitShopify")
    /\ reqs' = [reqs EXCEPT ![i].pc = "done", ![i].shopify = "failed",
                            ![i].result = "threw",
                            ![i].resp = IF reqs[i].kind = "save"
                                        THEN SaveOrderFailed ELSE NoResp]
    /\ UNCHANGED << providerVars, orderCalls, pageVars, gatewayVars >>

\* --------------------------------- GET /api/check-payment/:checkoutId

CheckError == Resp(500, "error")

\* The answer's status field for a session c.
CheckPaymentStatus(c) == Resp(200, ActualStatus(c))

CheckPaymentReceive ==
    /\ Len(reqs) < MaxRequests
    /\ reqs' = Append(reqs, Request("check", "awaitProvider", UndefinedCustomer,
                                    NullCart, NoTxn))
    /\ UNCHANGED << providerVars, orderCalls, pageVars, gatewayVars >>

CheckProviderFail(i) ==
    /\ i \in Reqs("check", "awaitProvider")
    /\ reqs' = [reqs EXCEPT ![i].pc = "done", ![i].resp = CheckError]
    /\ UNCHANGED << providerVars, orderCalls, pageVars, gatewayVars >>

\* The lookup succeeds. A FAILED session that names a transaction_id makes
\* the handler fetch that transaction first (a second await); the answer is
\* the one computed from the session either way.
CheckProviderOk(i, hasTransactionId) ==
    /\ i \in Reqs("check", "awaitProvider")
    /\ LET r == [reqs[i] EXCEPT !.rawStatus = checkout.status,
                               !.seenStatus = ActualStatus(checkout)]
       IN  IF checkout.status = "FAILED" /\ hasTransactionId
           THEN reqs' = [reqs EXCEPT ![i] = [r EXCEPT !.pc = "awaitTxn",
                                                     !.nProviderCalls = @ + 1]]
           ELSE reqs' = [reqs EXCEPT ![i] = [r EXCEPT !.pc = "done",
                                                     !.resp = CheckPaymentStatus(checkout)]]
    /\ UNCHANGED << providerVars, orderCalls, pageVars, gatewayVars >>

\* The transaction lookup ends, with details or with an error that is only
\* logged; the handler answers with the status it computed.
CheckTxnResponse(i) ==
    /\ i \in Reqs("check", "awaitTxn")
    /\ reqs' = [reqs EXCEPT ![i].pc = "done",
                            ![i].resp = Resp(200, reqs[i].seenStatus)]
    /\ UNCHANGED << providerVars, orderCalls, pageVars, gatewayVars >>

\* ------------------------------------------------- the checkout page

\* String.prototype.trim on the strings a field holds here.
Trim(v) ==
    CASE v = " " -> ""
      [] v = " Ana " -> "Ana"
      [] OTHER -> v

\* The form as served: every input empty, country preset.
InitialForm ==
    [f \in CustomerFields |-> IF f = "country" THEN "Espana" ELSE ""]

FilledForm ==
    [firstName |-> " Ana ", lastName |-> "Ruiz", email |-> "ana@example.com",
     phone |-> "", address |-> "Calle 1", postalCode |-> "28013",
     city |-> "Madrid", country |-> "Espana"]

\* Filled, but the email holds only a blank.
BlankEmailForm == [FilledForm EXCEPT !.email = " "]

FormValues == {InitialForm, FilledForm, BlankEmailForm}

\* validateCustomerInfo's test: every required field non-empty once trimmed.
ValidateCustomerInfo(f) == \A k \in RequiredFields : Trim(f[k]) /= ""

\* The customerData validateCustomerInfo stores when the test passes.
CustomerOf(f) == [kind |-> "object", fields |-> [k \in CustomerFields |-> Trim(f[k])]]

\* What the shop's cart.js may answer.
PageCarts == {EmptyCart, Cart1}

Alive == location = "checkout"

\* The body checkPaymentStatus posts to /api/save-customer-data.
SaveBody == [checkoutId |-> CheckoutId, customerData |-> customerData,
             cartData |-> cartData]

\* if (pollingInterval) clearInterval(pollingInterval)
ClearPolling == activeIntervals \ {pollingInterval}

pollVars ==
    << pollingInterval, activeIntervals, pendingTimeouts, nStarts, nChecks,
       checksInFlight, terminalSeen, timedOut >>

saveVars == << savesInFlight, pageSaves >>

messageVars == << loadingShown, successShown, errorMsg >>

\* checkPaymentStatus up to its first await: the status fetch is sent.
CheckPaymentStatusCall ==
    /\ nChecks < MaxChecks
    /\ nChecks' = nChecks + 1
    /\ checksInFlight' = checksInFlight + 1

\* startPolling: an immediate check, a new interval timer whose handle
\* replaces pollingInterval, and a 120 s timeout.
StartPolling ==
    /\ nStarts < MaxStarts
    /\ CheckPaymentStatusCall
    /\ nStarts' = nStarts + 1
    /\ pollingInterval' = nStarts + 1
    /\ activeIntervals' = activeIntervals \cup {nStarts + 1}
    /\ pendingTimeouts' = pendingTimeouts + 1
    /\ terminalSeen' = FALSE
    /\ timedOut' = FALSE

\* getCartData resolves with the shop's cart. A load that fails leaves
\* cartData null: the behaviours in which this step never happens.
GetCartDataResolve(cart) ==
    /\ Alive /\ cartData = NullCart
    /\ cartData' = cart
    /\ UNCHANGED << providerVars, serverVars, gatewayVars,
                    customerData, pollVars, saveVars,
                    lastStatus, messageVars, redirectTimers, location >>

\* onResponse('sent'), the form holding f: validate, then start polling; an
\* invalid form shows the validation error and returns.
WidgetSent(f) ==
    /\ Alive
    /\ IF ValidateCustomerInfo(f)
       THEN /\ customerData' = CustomerOf(f)
            /\ loadingShown' = TRUE
            /\ StartPolling
            /\ UNCHANGED errorMsg
       ELSE /\ errorMsg' = "validation"
            /\ UNCHANGED << customerData, loadingShown, pollVars >>
    /\ UNCHANGED << providerVars, serverVars, gatewayVars,
                    cartData, saveVars, lastStatus,
                    successShown, redirectTimers, location >>

\* onResponse('auth-screen') and onResponse('success'): show the loading
\* message and start polling if pollingInterval is still null.
WidgetProgress(type) ==
    /\ Alive
    /\ loadingShown' = TRUE
    /\ IF pollingInterval = 0 THEN StartPolling ELSE UNCHANGED pollVars
    /\ UNCHANGED << providerVars, serverVars, gatewayVars,
                    customerData, cartData, saveVars,
                    lastStatus, successShown, errorMsg, redirectTimers,
                    location >>

\* onResponse('error') and onResponse('invalid'): clear the current interval
\* and show the error.
WidgetFailure(type) ==
    /\ Alive
    /\ activeIntervals' = IF pollingInterval /= 0 THEN ClearPolling ELSE activeIntervals
    /\ loadingShown' = FALSE
    /\ errorMsg' = type
    /\ UNCHANGED << providerVars, serverVars, gatewayVars,
                    customerData, cartData,
                    pollingInterval, pendingTimeouts, nStarts, nChecks,
                    checksInFlight, terminalSeen, timedOut, saveVars,
                    lastStatus, successShown, redirectTimers, location >>

\* An interval timer fires: checkPaymentStatus.
IntervalTick(h) ==
    /\ Alive /\ h \in activeIntervals
    /\ CheckPaymentStatusCall
    /\ UNCHANGED << providerVars, serverVars, gatewayVars,
                    customerData, cartData,
                    pollingInterval, activeIntervals, pendingTimeouts, nStarts,
                    terminalSeen, timedOut, saveVars, lastStatus, messageVars,
                    redirectTimers, location >>

\* A 120 s timeout fires: it clears the interval pollingInterval names now.
\* timedOut records that the last pending timeout fired before any status
\* response of this polling round was PAID or FAILED.
PollTimeout ==
    /\ Alive /\ pendingTimeouts > 0
    /\ pendingTimeouts' = pendingTimeouts - 1
    /\ activeIntervals' = IF pollingInterval /= 0 THEN ClearPolling ELSE activeIntervals
    /\ timedOut' = (pendingTimeouts = 1 /\ ~terminalSeen)
    /\ UNCHANGED << providerVars, serverVars, gatewayVars,
                    customerData, cartData,
                    pollingInterval, nStarts, nChecks, checksInFlight,
                    terminalSeen, saveVars, lastStatus, messageVars,
                    redirectTimers, location >>

\* visibilitychange, document.hidden being h: when the page is visible and
\* pollingInterval is set, check.
VisibilityChange(h) ==
    /\ Alive
    /\ IF ~h /\ pollingInterval /= 0
       THEN CheckPaymentStatusCall
       ELSE UNCHANGED << nChecks, checksInFlight >>
    /\ UNCHANGED << providerVars, serverVars, gatewayVars,
                    customerData, cartData,
                    pollingInterval, activeIntervals, pendingTimeouts, nStarts,
                    terminalSeen, timedOut, saveVars, lastStatus, messageVars,
                    redirectTimers, location >>

\* StatusBranch taking the server's 'error' status for a failed payment.
StatusBranchErrorFails(status) ==
    IF status = "PAID" THEN "paid"
    ELSE IF status \in {"FAILED", "error"} THEN "failed"
    ELSE "continue"

\* StatusBranch confirming a FAILED payment as well.
StatusBranchFailedPays(status) ==
    IF status \in {"PAID", "FAILED"} THEN "paid" ELSE "continue"

\* The branch checkPaymentStatus takes on data.status: PENDING and any
\* unknown value are only logged.
StatusBranch(status) ==
    IF status = "PAID" THEN "paid"
    ELSE IF status = "FAILED" THEN "failed"
    ELSE "continue"

\* The status fetch resolves with the server's answer for the session as the
\* provider reports it now (or the 500 answer when the lookup fails), and
\* checkPaymentStatus runs on to its next await or its end.
CheckResponse(resp) ==
    /\ Alive /\ checksInFlight > 0
    /\ checksInFlight' = checksInFlight - 1
    /\ lastStatus' = resp.status
    /\ LET branch == StatusBranch(resp.status)
       IN  /\ activeIntervals' =
                 IF branch \in {"paid", "failed"} /\ pollingInterval /= 0
                 THEN ClearPolling ELSE activeIntervals
           /\ terminalSeen' = (terminalSeen \/ branch \in {"paid", "failed"})
           /\ timedOut' = (timedOut /\ branch = "continue")
           /\ IF branch = "paid"
              THEN /\ savesInFlight' = savesInFlight + 1
                   /\ pageSaves' = Append(pageSaves, SaveBody)
              ELSE UNCHANGED saveVars
           /\ IF branch = "failed"
              THEN loadingShown' = FALSE /\ errorMsg' = "failed"
              ELSE UNCHANGED << loadingShown, errorMsg >>
    /\ UNCHANGED << providerVars, serverVars, gatewayVars,
                    customerData, cartData,
                    pollingInterval, pendingTimeouts, nStarts, nChecks,
                    successShown, redirectTimers, location >>

\* The status fetch rejects (network failure): the catch logs the error.
CheckReject ==
    /\ Alive /\ checksInFlight > 0
    /\ checksInFlight' = checksInFlight - 1
    /\ lastStatus' = "threw"
    /\ UNCHANGED << providerVars, serverVars, gatewayVars,
                    customerData, cartData,
                    pollingInterval, activeIntervals, pendingTimeouts, nStarts,
                    nChecks, terminalSeen, timedOut, saveVars, messageVars,
                    redirectTimers, location >>

\* The confirmation fetch resolves (with any HTTP status: the answer is not
\* read): the success message is shown and the redirect is scheduled.
SaveResolve ==
    /\ Alive /\ savesInFlight > 0
    /\ savesInFlight' = savesInFlight - 1
    /\ loadingShown' = FALSE
    /\ successShown' = TRUE
    /\ redirectTimers' = redirectTimers + 1
    /\ UNCHANGED << providerVars, serverVars, gatewayVars,
                    customerData, cartData, pollVars,
                    pageSaves, lastStatus, errorMsg, location >>

\* The confirmation fetch rejects: the catch logs the error.
SaveReject ==
    /\ Alive /\ savesInFlight > 0
    /\ savesInFlight' = savesInFlight - 1
    /\ UNCHANGED << providerVars, serverVars, gatewayVars,
                    customerData, cartData, pollVars,
                    pageSaves, lastStatus, messageVars, redirectTimers,
                    location >>

\* A redirect timeout fires: the page is left.
RedirectFire ==
    /\ Alive /\ redirectTimers > 0
    /\ redirectTimers' = redirectTimers - 1
    /\ location' = "redirected"
    /\ UNCHANGED << providerVars, serverVars, gatewayVars,
                    customerData, cartData, pollVars,
                    saveVars, lastStatus, messageVars >>

\* ------------------------------------- direct calls of createShopifyOrder

OrderCustomers == {UndefinedCustomer, EmptyCustomer, CustomerOf(FilledForm)}

OrderCarts == {NullCart, NoItemsCart, EmptyCart, Cart1, Cart2}

OrderTxns == {NoTxn, Txn("SUCCESSFUL", "TXS"), Txn("SUCCESSFUL", Absent)}

\* createShopifyOrder(customerData, cartData, checkoutId, transactionData)
\* runs to its await, or throws while building the order.
CreateShopifyOrder(customer, cart, transactionData) ==
    /\ Len(reqs) < MaxCalls
    /\ LET i == Len(reqs) + 1
           r == Request("direct", "awaitShopify", customer, cart, transactionData)
           call == CreateShopifyOrderCall(r, i)
       IN  IF call.thrown
           THEN /\ reqs' = Append(reqs, [r EXCEPT !.pc = "done", !.result = "threw"])
                /\ UNCHANGED orderCalls
           ELSE /\ reqs' = Append(reqs, [r EXCEPT !.nOrderCalls = 1])
                /\ orderCalls' = orderCalls \o call.posted
    /\ UNCHANGED << providerVars, pageVars, gatewayVars >>

\* ------------------------------------------------------ GET /checkout

\* req.query: a parameter the URL does not carry is Absent.
Query(amount, currency, order_id, cart_token, return_url) ==
    [amount |-> amount, currency |-> currency, order_id |-> order_id,
     cart_token |-> cart_token, return_url |-> return_url]

Queries ==
    { Query("10.00", "eur", "1001", "tok1", "https://shop.example/cart"),
      Query("10.00", "EUR", Absent, Absent, Absent),
      Query("10.00", "eur", "", Absent, Absent),
      Query("0", "eur", "1001", "tok1", Absent),
      Query("-5", "eur", Absent, Absent, Absent),
      Query(Absent, "eur", "1001", "tok1", Absent),
      Query("", "eur", "1001", "tok1", Absent),
      Query("10.00", Absent, "1001", "tok1", Absent) }

\* A JavaScript number, held in hundredths; nan is TRUE for NaN.
Num(cents) == [nan |-> FALSE, cents |-> cents]

NaN == [nan |-> TRUE, cents |-> 0]

\* parseFloat on the amount strings used here.
ParseFloat(v) ==
    CASE v = "10.00" -> Num(1000)
      [] v = "0" -> Num(0)
      [] v = "-5" -> Num(-500)
      [] OTHER -> NaN

\* String.prototype.toUpperCase on the currency strings used here.
ToUpperCase(v) ==
    CASE v = "eur" -> "EUR"
      [] OTHER -> v

\* order_id ? `shopify-${order_id}-${Date.now()}` : `shopify-${Date.now()}`
CheckoutRef(order_id, t) ==
    IF Truthy(order_id)
    THEN "shopify-" \o order_id \o "-" \o ToString(t)
    ELSE "shopify-" \o ToString(t)

\* The body of POST /checkouts.
CheckoutData(q, ref) ==
    [checkout_reference |-> ref,
     amount |-> ParseFloat(q.amount),
     currency |-> ToUpperCase(q.currency),
     pay_to_email |-> "yurkovsergii@gmail.com",
     description |-> "Pedido Shopify " \o OrEmpty(q.order_id)]

NoCheckoutData ==
    [checkout_reference |-> Absent, amount |-> NaN, currency |-> Absent,
     pay_to_email |-> Absent, description |-> Absent]

\* A GET /checkout request: its query, where the handler stands, what it sent
\* to the provider and what it answered (httpStatus 0: no answer yet).
CheckoutRequest(q, pc, ref, data, http) ==
    [query |-> q, pc |-> pc, checkoutRef |-> ref, checkoutData |-> data,
     nProviderCalls |-> IF pc = "awaitProvider" THEN 1 ELSE 0,
     sessionId |-> Absent, httpStatus |-> http]

\* The id the provider assigns to the n-th session it opens.
SessionId(n) == "co" \o ToString(n)

\* The value pendingOrders.set stores for a query.
PendingOrder(id, q, t) ==
    [id |-> id, order_id |-> q.order_id, cart_token |-> q.cart_token,
     amount |-> q.amount, currency |-> q.currency,
     return_url |-> q.return_url, created_at |-> t]

\* MapSet dropping every other entry.
MapSetClearing(m, e) == {e}

\* Map.prototype.set: the entry under key e.id is replaced or added.
MapSet(m, e) == { x \in m : x.id /= e.id } \cup {e}

\* Map.prototype.has
MapHas(m, id) == \E x \in m : x.id = id

\* CheckoutRejects testing the amount only.
CheckoutRejectsAmountOnly(q) == ~Truthy(q.amount)

\* if (!amount || !currency)
CheckoutRejects(q) == ~Truthy(q.amount) \/ ~Truthy(q.currency)

\* Tracked for every checkout, anonymous ones included.
TrackedAlways(q) == q = q

\* if (order_id): the checkout is stored in pendingOrders.
Tracked(q) == Truthy(q.order_id)

\* HTTP requests the server has received, of every route.
Arrivals == Len(reqs) + Len(checkoutReqs) + Len(acks)

\* Date.now() advances.
ClockTick ==
    /\ now < MaxNow
    /\ now' = now + 1
    /\ UNCHANGED << providerVars, serverVars, pageVars, pendingOrders,
                    checkoutReqs, nSessions, acks >>

\* A request arrives. Without amount or currency the handler answers 400;
\* otherwise it builds checkoutRef and checkoutData and posts the session to
\* the provider (its await).
CheckoutReceive(q) ==
    /\ Len(checkoutReqs) < MaxCheckouts /\ Arrivals < MaxArrivals
    /\ checkoutReqs' =
          Append(checkoutReqs,
                 IF CheckoutRejects(q)
                 THEN CheckoutRequest(q, "done", Absent, NoCheckoutData, 400)
                 ELSE CheckoutRequest(q, "awaitProvider",
                                      CheckoutRef(q.order_id, now),
                                      CheckoutData(q, CheckoutRef(q.order_id, now)),
                                      0))
    /\ UNCHANGED << providerVars, serverVars, pageVars, pendingOrders, now,
                    nSessions, acks >>

\* CheckoutProviderFail had the handler stored the order before the await.
CheckoutProviderFailStoring(i) ==
    /\ i \in 1..Len(checkoutReqs)
    /\ checkoutReqs[i].pc = "awaitProvider"
    /\ checkoutReqs' = [checkoutReqs EXCEPT ![i].pc = "done",
                                            ![i].httpStatus = 500]
    /\ pendingOrders' =
          MapSet(pendingOrders, PendingOrder(Absent, checkoutReqs[i].query, now))
    /\ UNCHANGED << providerVars, serverVars, pageVars, now, nSessions, acks >>

\* The provider refuses the session, or cannot be reached: the catch answers
\* 500 with the error page.
CheckoutProviderFail(i) ==
    /\ i \in 1..Len(checkoutReqs)
    /\ checkoutReqs[i].pc = "awaitProvider"
    /\ checkoutReqs' = [checkoutReqs EXCEPT ![i].pc = "done",
                                            ![i].httpStatus = 500]
    /\ UNCHANGED << providerVars, serverVars, pageVars, pendingOrders, now,
                    nSessions, acks >>

\* The provider opens the session and answers with its id. The handler
\* stores the order under that id if order_id is set, and serves the page.
CheckoutProviderOk(i) ==
    /\ i \in 1..Len(checkoutReqs)
    /\ checkoutReqs[i].pc = "awaitProvider"
    /\ LET id == SessionId(nSessions + 1)
           q == checkoutReqs[i].query
       IN  /\ nSessions' = nSessions + 1
           /\ pendingOrders' =
                 IF Tracked(q)
                 THEN MapSet(pendingOrders, PendingOrder(id, q, now))
                 ELSE pendingOrders
           /\ checkoutReqs' = [checkoutReqs EXCEPT ![i].pc = "done",
                                                   ![i].sessionId = id,
                                                   ![i].httpStatus = 200]
    /\ UNCHANGED << providerVars, serverVars, pageVars, now, acks >>

\* ------------------------------- POST /webhook/sumup, the result pages

Ack(route, payload, http) ==
    [route |-> route, payload |-> payload, httpStatus |-> http]

\* req.body of a notification: empty, or naming a session and its status.
Notifications ==
    { [id |-> Absent, status |-> Absent],
      [id |-> "co1", status |-> "PAID"],
      [id |-> "co1", status |-> "FAILED"] }

NoPayload == [id |-> Absent, status |-> Absent]

\* Webhook had it closed the session the notification names.
WebhookUpdating(notification) ==
    /\ Len(acks) < MaxAcks /\ Arrivals < MaxArrivals
    /\ acks' = Append(acks, Ack("/webhook/sumup", notification, 200))
    /\ pendingOrders' = { x \in pendingOrders : x.id /= notification.id }
    /\ UNCHANGED << providerVars, serverVars, pageVars, checkoutReqs, now,
                    nSessions >>

\* The webhook logs the notification and answers 200 OK.
Webhook(notification) ==
    /\ Len(acks) < MaxAcks /\ Arrivals < MaxArrivals
    /\ acks' = Append(acks, Ack("/webhook/sumup", notification, 200))
    /\ UNCHANGED << providerVars, serverVars, pageVars, pendingOrders,
                    checkoutReqs, now, nSessions >>

\* GET /payment/success and GET /payment/failure serve a fixed page.
ResultPage(route) ==
    /\ Len(acks) < MaxAcks /\ Arrivals < MaxArrivals
    /\ acks' = Append(acks, Ack(route, NoPayload, 200))
    /\ UNCHANGED << providerVars, serverVars, pageVars, pendingOrders,
                    checkoutReqs, now, nSessions >>

\* ------------------------------------------------------- specifications

Init ==
    /\ checkout = Checkout("PENDING", FALSE, << >>)
    /\ reqs = << >>
    /\ orderCalls = << >>
    /\ customerData = EmptyCustomer
    /\ cartData = NullCart
    /\ pollingInterval = 0
    /\ activeIntervals = {}
    /\ pendingTimeouts = 0
    /\ nStarts = 0
    /\ nChecks = 0
    /\ checksInFlight = 0
    /\ savesInFlight = 0
    /\ pageSaves = << >>
    /\ lastStatus = Absent
    /\ loadingShown = FALSE
    /\ successShown = FALSE
    /\ errorMsg = "none"
    /\ redirectTimers = 0
    /\ location = "checkout"
    /\ terminalSeen = FALSE
    /\ timedOut = FALSE
    /\ pendingOrders = {}
    /\ checkoutReqs = << >>
    /\ now = 0
    /\ nSessions = 0
    /\ acks = << >>

\* Bodies of the confirmation requests the server is sent.
RequestCustomers == {UndefinedCustomer, CustomerOf(FilledForm)}

RequestCarts == {NullCart, NoItemsCart, EmptyCart, Cart1}

Server ==
    \/ \E c \in RequestCustomers, cart \in RequestCarts :
           SaveCustomerDataReceive(c, cart)
    \/ \E i \in 1..Len(reqs) : SaveProviderFail(i)
    \/ \E i \in 1..Len(reqs) : SaveProviderOk(i)
    \/ \E i \in 1..Len(reqs) : ShopifyOk(i)
    \/ \E i \in 1..Len(reqs) : ShopifyFail(i)
    \/ CheckPaymentReceive
    \/ \E i \in 1..Len(reqs) : CheckProviderFail(i)
    \/ \E i \in 1..Len(reqs), hasTransactionId \in BOOLEAN :
           CheckProviderOk(i, hasTransactionId)
    \/ \E i \in 1..Len(reqs) : CheckTxnResponse(i)

Next == Provider \/ Server

Spec == Init /\ [][Next]_vars

Page ==
    \/ \E cart \in PageCarts : GetCartDataResolve(cart)
    \/ \E f \in FormValues : WidgetSent(f)
    \/ \E type \in {"auth-screen", "success"} : WidgetProgress(type)
    \/ \E type \in {"error", "invalid"} : WidgetFailure(type)
    \/ \E h \in 1..MaxStarts : IntervalTick(h)
    \/ PollTimeout
    \/ \E h \in BOOLEAN : VisibilityChange(h)
    \/ \E resp \in {CheckPaymentStatus(checkout), CheckError} : CheckResponse(resp)
    \/ CheckReject
    \/ SaveResolve
    \/ SaveReject
    \/ RedirectFire

NextPage == (\E s \in RawStatuses : ProviderSetStatus(s)) \/ Page

SpecPage == Init /\ [][NextPage]_vars

NextOrder ==
    \/ \E c \in OrderCustomers, cart \in OrderCarts, t \in OrderTxns :
           CreateShopifyOrder(c, cart, t)
    \/ \E i \in 1..Len(reqs) : ShopifyOk(i)
    \/ \E i \in 1..Len(reqs) : ShopifyFail(i)

SpecOrder == Init /\ [][NextOrder]_vars

Gateway ==
    \/ ClockTick
    \/ \E q \in Queries : CheckoutReceive(q)
    \/ \E i \in 1..Len(checkoutReqs) : CheckoutProviderFail(i)
    \/ \E i \in 1..Len(checkoutReqs) : CheckoutProviderOk(i)
    \/ \E notification \in Notifications : Webhook(notification)
    \/ \E route \in {"/payment/success", "/payment/failure"} : ResultPage(route)

\* Carts of the confirmation requests: what the page read from the shop when
\* it loaded, which need not be what the checkout was opened for.
GatewayCarts == PageCarts \cup {Cart2}

\* The confirmation and status handlers beside GET /checkout.
GatewayServer ==
    \/ /\ Arrivals < MaxArrivals
       /\ \E cart \in GatewayCarts :
              SaveCustomerDataReceive(CustomerOf(FilledForm), cart)
    \/ \E i \in 1..Len(reqs) : SaveProviderFail(i)
    \/ \E i \in 1..Len(reqs) : SaveProviderOk(i)
    \/ \E i \in 1..Len(reqs) : ShopifyOk(i)
    \/ \E i \in 1..Len(reqs) : ShopifyFail(i)
    \/ Arrivals < MaxArrivals /\ CheckPaymentReceive
    \/ \E i \in 1..Len(reqs) : CheckProviderFail(i)
    \/ \E i \in 1..Len(reqs), hasTransactionId \in BOOLEAN :
           CheckProviderOk(i, hasTransactionId)
    \/ \E i \in 1..Len(reqs) : CheckTxnResponse(i)

NextGateway ==
    \/ Gateway
    \/ \E s \in {"PAID", "FAILED"} : ProviderSetStatus(s)
    \/ GatewayServer

SpecGateway == Init /\ [][NextGateway]_vars

\* --------------------------------------------------------------- claims

SaveRequests == { i \in 1..Len(reqs) : reqs[i].kind = "save" }

CheckRequests == { i \in 1..Len(reqs) : reqs[i].kind = "check" }

DirectCalls == { i \in 1..Len(reqs) : reqs[i].kind = "direct" }

OrderCallsOf(i) == { k \in 1..Len(orderCalls) : orderCalls[k].req = i }

\* C1: the confirmation requests for one session that the provider reports
\* PAID, each carrying a cart with items, lead to at most one order-creation
\* call between them.
C1_ExactlyOnce ==
    Cardinality({ k \in 1..Len(orderCalls) :
                    /\ orderCalls[k].order.checkoutId = CheckoutId
                    /\ reqs[orderCalls[k].req].kind = "save"
                    /\ reqs[orderCalls[k].req].seenStatus = "PAID" }) <= 1

\* C3: an order-creation call is posted by the confirmation handler only for
\* a request whose provider lookup showed the normalized status PAID.
C3_OrderOnlyIfPaid ==
    \A k \in 1..Len(orderCalls) :
        reqs[orderCalls[k].req].kind = "save"
            => reqs[orderCalls[k].req].seenStatus = "PAID"

\* The status C4 expects for a provider response c.
NormalizedStatus(c) ==
    IF c.hasTransactions
       /\ \E k \in 1..Len(c.transactions) : c.transactions[k].status = "SUCCESSFUL"
    THEN "PAID"
    ELSE c.status

\* C4: when the provider lookup of GET /api/check-payment succeeds, the status
\* the handler computes, and answers with, is PAID if the transaction list
\* holds a SUCCESSFUL entry and the raw status otherwise.
C4_StatusNormalized ==
    [][\A i \in 1..Len(reqs) :
          /\ ( /\ reqs[i].kind = "check" /\ reqs[i].pc = "awaitProvider"
               /\ reqs'[i].pc /= "awaitProvider"
               /\ reqs'[i].resp /= CheckError )
             => /\ reqs'[i].seenStatus = NormalizedStatus(checkout)
                /\ reqs'[i].pc = "done"
                     => reqs'[i].resp = Resp(200, NormalizedStatus(checkout))
          /\ ( reqs[i].kind = "check" /\ reqs[i].pc = "awaitTxn"
               /\ reqs'[i].pc = "done" )
             => reqs'[i].resp = Resp(200, reqs[i].seenStatus)
    ]_vars

\* A status request answered PAID for a session whose raw status was FAILED.
C4_Witness ==
    \E i \in CheckRequests :
        /\ reqs[i].pc = "done"
        /\ reqs[i].rawStatus = "FAILED"
        /\ reqs[i].resp = Resp(200, "PAID")

\* C9: a confirmation request whose order-creation call failed is answered
\* 200 partial_success, after exactly one order-creation call and the one
\* provider lookup.
C9_PartialSuccess ==
    \A i \in SaveRequests :
        reqs[i].shopify = "failed"
            => /\ reqs[i].pc = "done"
               /\ reqs[i].resp = Resp(200, "partial_success")
               /\ reqs[i].nOrderCalls = 1
               /\ Cardinality(OrderCallsOf(i)) = 1
               /\ reqs[i].nProviderCalls = 1

C9_Witness ==
    \E i \in SaveRequests :
        /\ reqs[i].shopify = "failed"
        /\ CartHasItems(reqs[i].cartData)
        /\ reqs[i].seenStatus = "PAID"

\* C10: createShopifyOrder called with a cart whose item list is empty posts
\* no order and ends by throwing.
C10_EmptyCartRejected ==
    \A i \in DirectCalls :
        (reqs[i].cartData.hasItems /\ Len(reqs[i].cartData.items) = 0)
            => /\ reqs[i].nOrderCalls = 0
               /\ OrderCallsOf(i) = {}
               /\ reqs[i].pc = "done"
               /\ reqs[i].result = "threw"

\* Every required field of a customer record is a non-empty string.
CustomerComplete(c) ==
    /\ c.kind = "object"
    /\ \A f \in RequiredFields : c.fields[f] \notin {Absent, ""}

\* C2: the page sends at most one confirmation request.
C2_ConfirmOnce == Len(pageSaves) <= 1

\* C5: polling has started only after validateCustomerInfo succeeded, and
\* every confirmation request carries a complete customer record.
C5_ValidatedFirst ==
    /\ nStarts > 0 => CustomerComplete(customerData)
    /\ \A k \in 1..Len(pageSaves) : CustomerComplete(pageSaves[k].customerData)

\* C6: once the timeout has fired with no terminal status seen, and until the
\* widget starts polling again, no status check is issued, no confirmation
\* request is sent and neither the success nor the failure message appears.
C6_HaltedAfterTimeout ==
    [][(timedOut /\ nStarts' = nStarts)
          => /\ nChecks' = nChecks
             /\ pageSaves' = pageSaves
             /\ successShown' = successShown
             /\ errorMsg' = "failed" => errorMsg = "failed"
    ]_vars

\* C7: after a status response of PAID or FAILED, and until polling is
\* started again, no interval timer is running.
C7_TerminalCancelsAll == terminalSeen => activeIntervals = {}

\* C8: a status response that is neither PAID nor FAILED leaves the interval
\* timers and pollingInterval as they are, sends no confirmation request and
\* changes no message.
C8_NonTerminalContinues ==
    [][(checksInFlight' < checksInFlight
        /\ lastStatus' \notin {"PAID", "FAILED", "threw"})
          => /\ activeIntervals' = activeIntervals
             /\ pollingInterval' = pollingInterval
             /\ saveVars' = saveVars
             /\ messageVars' = messageVars
    ]_vars

\* The server's 'error' status was handled while polling, and polling goes on.
C8_Witness ==
    /\ lastStatus = "error"
    /\ activeIntervals /= {}
    /\ pageSaves = << >>
    /\ ~successShown
    /\ errorMsg = "none"

\* A query parameter that is absent or empty.
Missing(v) == v \in {Absent, ""}

\* C11: a GET /checkout request without amount or without currency is
\* answered 400 at once, with no provider call, no session opened and the
\* session store as it was; the request never proceeds later.
C11_MissingParamsRejected ==
    [][/\ \A i \in 1..Len(checkoutReqs') :
            (Missing(checkoutReqs'[i].query.amount)
             \/ Missing(checkoutReqs'[i].query.currency))
               => /\ checkoutReqs'[i].pc = "done"
                  /\ checkoutReqs'[i].httpStatus = 400
                  /\ checkoutReqs'[i].nProviderCalls = 0
                  /\ checkoutReqs'[i].sessionId = Absent
                  /\ i > Len(checkoutReqs)
                       => /\ pendingOrders' = pendingOrders
                          /\ nSessions' = nSessions
    ]_vars

\* A request without currency was answered 400 while the store held a session.
C11_Witness ==
    /\ pendingOrders /= {}
    /\ \E i \in 1..Len(checkoutReqs) :
          /\ checkoutReqs[i].query.currency = Absent
          /\ checkoutReqs[i].httpStatus = 400

\* The amount a query carries is a number greater than 0.
PositiveAmount(v) == ~ParseFloat(v).nan /\ ParseFloat(v).cents > 0

\* C12: a GET /checkout request whose amount is not greater than 0 is
\* answered 400 and makes no provider call.
C12_ZeroAmountRejected ==
    \A i \in 1..Len(checkoutReqs) :
        ~PositiveAmount(checkoutReqs[i].query.amount)
            => /\ checkoutReqs[i].nProviderCalls = 0
               /\ checkoutReqs[i].httpStatus = 400

\* C13: when the provider call of GET /checkout ends without a session
\* opened, the request is answered 500 and the session store is unchanged.
C13_FailureAborts ==
    [][\A i \in 1..Len(checkoutReqs) :
          ( /\ checkoutReqs[i].pc = "awaitProvider"
            /\ checkoutReqs'[i].pc = "done"
            /\ nSessions' = nSessions )
             => /\ checkoutReqs'[i].httpStatus = 500
                /\ checkoutReqs'[i].sessionId = Absent
                /\ pendingOrders' = pendingOrders
    ]_vars

\* A checkout with an order reference failed at the provider and left the
\* store empty.
C13_Witness ==
    /\ pendingOrders = {}
    /\ \E i \in 1..Len(checkoutReqs) :
          /\ checkoutReqs[i].httpStatus = 500
          /\ checkoutReqs[i].query.order_id = "1001"

\* C14: after a GET /checkout answered with the payment page, the store has
\* an entry under the provider's session id exactly when the query carried a
\* (non-empty) order_id.
C14_StoredIffOrderId ==
    \A i \in 1..Len(checkoutReqs) :
        checkoutReqs[i].httpStatus = 200
            => ( MapHas(pendingOrders, checkoutReqs[i].sessionId)
                 <=> ~Missing(checkoutReqs[i].query.order_id) )

\* One tracked and one anonymous checkout have both succeeded.
C14_Witness ==
    \E i, j \in 1..Len(checkoutReqs) :
        /\ checkoutReqs[i].httpStatus = 200
        /\ checkoutReqs[j].httpStatus = 200
        /\ checkoutReqs[i].query.order_id = "1001"
        /\ checkoutReqs[j].query.order_id = Absent

\* C15: two checkouts for the same order reference never get the same
\* checkout reference string.
C15_RefsDistinct ==
    \A i, j \in 1..Len(checkoutReqs) :
        ( /\ i /= j
          /\ checkoutReqs[i].checkoutRef /= Absent
          /\ checkoutReqs[j].checkoutRef /= Absent
          /\ ~Missing(checkoutReqs[i].query.order_id)
          /\ checkoutReqs[i].query.order_id = checkoutReqs[j].query.order_id )
            => checkoutReqs[i].checkoutRef /= checkoutReqs[j].checkoutRef

\* The transaction list of a provider response (empty when it carries none).
TransactionList(c) == IF c.hasTransactions THEN c.transactions ELSE << >>

\* C16: the order the confirmation handler posts after a provider lookup
\* carries as authorization the code of a SUCCESSFUL transaction of the list
\* whenever the list has a SUCCESSFUL transaction with a code, the session id
\* otherwise, and never the code of a transaction that is not SUCCESSFUL.
C16_AuthorizationCode ==
    [][(Len(orderCalls') > Len(orderCalls)
        /\ reqs'[orderCalls'[Len(orderCalls')].req].kind = "save")
          => LET auth == orderCalls'[Len(orderCalls')].order.transaction.authorization
                 list == TransactionList(checkout)
                 Coded == { k \in 1..Len(list) :
                              /\ list[k].status = "SUCCESSFUL"
                              /\ list[k].transaction_code /= Absent }
             IN  /\ IF Coded /= {}
                    THEN \E k \in Coded : auth = list[k].transaction_code
                    ELSE auth = CheckoutId
                 /\ \A k \in 1..Len(list) :
                        list[k].status /= "SUCCESSFUL"
                            => auth /= list[k].transaction_code
    ]_vars

\* The two-decimal rendering of p minor units, digit by digit: the whole
\* major units, a point, the tenths digit and the hundredths digit.
TwoDecimal(p) ==
    ToString(p \div 100) \o "." \o ToString((p % 100) \div 10) \o ToString(p % 10)

\* C17: every posted order has one line item per cart entry, priced at the
\* two-decimal rendering of the entry's unit price, and a transaction amount
\* that is the two-decimal rendering of the cart's total_price.
C17_TwoDecimalPrices ==
    \A k \in 1..Len(orderCalls) :
        LET order == orderCalls[k].order
            cart == reqs[orderCalls[k].req].cartData
        IN  /\ Len(order.line_items) = Len(cart.items)
            /\ \A j \in 1..Len(cart.items) :
                   order.line_items[j].price = TwoDecimal(cart.items[j].price)
            /\ order.transaction.amount = TwoDecimal(cart.total_price)

\* An order for one item of 1000 shows "10.00" twice, and an order with an
\* item of 5 shows "0.05" and the total 4003 as "40.03".
C17_Witness ==
    \E k, l \in 1..Len(orderCalls) :
        /\ Len(orderCalls[k].order.line_items) = 1
        /\ orderCalls[k].order.line_items[1].price = "10.00"
        /\ orderCalls[k].order.transaction.amount = "10.00"
        /\ Len(orderCalls[l].order.line_items) = 2
        /\ orderCalls[l].order.line_items[2].price = "0.05"
        /\ orderCalls[l].order.transaction.amount = "40.03"

\* C18: a webhook notification is answered 200 and changes nothing else: not
\* the session store, not the provider's sessions, no request of another
\* route makes a provider call, and no order-creation call is posted.
C18_WebhookAcknowledges ==
    [][(Len(acks') > Len(acks) /\ acks'[Len(acks')].route = "/webhook/sumup")
          => /\ acks'[Len(acks')].httpStatus = 200
             /\ pendingOrders' = pendingOrders
             /\ nSessions' = nSessions
             /\ checkout' = checkout
             /\ checkoutReqs' = checkoutReqs
             /\ reqs' = reqs
             /\ orderCalls' = orderCalls
    ]_vars

\* A notification that the stored session co1 is PAID was acknowledged.
C18_Witness ==
    /\ MapHas(pendingOrders, "co1")
    /\ \E k \in 1..Len(acks) :
          /\ acks[k].route = "/webhook/sumup"
          /\ acks[k].payload.id = "co1"
          /\ acks[k].payload.status = "PAID"
          /\ acks[k].httpStatus = 200

\* C19: the page sends a confirmation request only on handling a status
\* response that says PAID, for its own checkout id, and handling a FAILED
\* response sends none.
C19_ConfirmOnlyOnPaid ==
    [][/\ pageSaves' /= pageSaves
          => /\ pageSaves' = Append(pageSaves, pageSaves'[Len(pageSaves')])
             /\ pageSaves'[Len(pageSaves')].checkoutId = CheckoutId
             /\ checksInFlight' = checksInFlight - 1
             /\ lastStatus' = "PAID"
       /\ (checksInFlight' < checksInFlight /\ lastStatus' = "FAILED")
          => saveVars' = saveVars
    ]_vars

\* A confirmation was sent, and a later status response said FAILED.
C19_Witness ==
    /\ Len(pageSaves) = 1
    /\ lastStatus = "FAILED"

\* C20: the session store changes only on the step in which a GET /checkout
\* request gets its session from the provider; that step adds entries and
\* keeps every entry already there, one entry per session id. The steps of
\* the status, confirmation, webhook and result-page handlers leave it as
\* it is.
C20_StoreFrame ==
    [][/\ pendingOrders' /= pendingOrders
          => /\ \E i \in 1..Len(checkoutReqs) :
                    /\ checkoutReqs[i].pc = "awaitProvider"
                    /\ checkoutReqs'[i].httpStatus = 200
                /\ pendingOrders \subseteq pendingOrders'
                /\ reqs' = reqs
                /\ acks' = acks
       /\ \A x, y \in pendingOrders' : x.id = y.id => x = y
    ]_vars

\* Two sessions are stored, and a webhook notification was handled.
C20_Witness ==
    /\ Cardinality(pendingOrders) = 2
    /\ \E k \in 1..Len(acks) : acks[k].route = "/webhook/sumup"

\* C21: a confirmation request whose cart is absent, has no items field or
\* has an empty item list posts no order, and once its provider lookup has
\* succeeded it is answered 200 with status success.
C21_NoCartSuccess ==
    \A i \in SaveRequests :
        ( \/ reqs[i].cartData.kind = "null"
          \/ ~reqs[i].cartData.hasItems
          \/ Len(reqs[i].cartData.items) = 0 )
            => /\ reqs[i].nOrderCalls = 0
               /\ OrderCallsOf(i) = {}
               /\ reqs[i].seenStatus /= Absent
                    => /\ reqs[i].pc = "done"
                       /\ reqs[i].resp = Resp(200, "success")

\* Requests with a null cart and with an empty item list were both answered
\* success.
C21_Witness ==
    \E i, j \in SaveRequests :
        /\ reqs[i].cartData = NullCart
        /\ reqs[j].cartData = EmptyCart
        /\ reqs[i].resp = Resp(200, "success")
        /\ reqs[j].resp = Resp(200, "success")

\* C26: a confirmation request whose provider lookup failed is answered 500
\* with status error and has posted no order, whatever its cart.
C26_LookupFailure ==
    \A i \in SaveRequests :
        (reqs[i].pc = "done" /\ reqs[i].seenStatus = Absent)
            => /\ reqs[i].resp = Resp(500, "error")
               /\ reqs[i].nOrderCalls = 0
               /\ OrderCallsOf(i) = {}

\* The lookup failed for a request that carried a cart with an item.
C26_Witness ==
    \E i \in SaveRequests :
        /\ reqs[i].pc = "done"
        /\ reqs[i].seenStatus = Absent
        /\ CartHasItems(reqs[i].cartData)
        /\ reqs[i].resp = Resp(500, "error")

\* C22: whenever a confirmation request of the page ends, whatever its
\* outcome, the success message is shown and the redirect is scheduled.
C22_SuccessWhateverOutcome ==
    [][savesInFlight' < savesInFlight
          => /\ successShown'
             /\ redirectTimers' = redirectTimers + 1
    ]_vars

\* C23: a status check that is not the immediate one of startPolling is
\* issued only while polling is active, that is, while an interval timer is
\* running; the visibilitychange listener issues none once polling was
\* halted, nor before it started.
C23_VisibleCheckOnlyWhenActive ==
    [][(nChecks' > nChecks /\ nStarts' = nStarts) => activeIntervals /= {}]_vars

\* C24: when a widget event puts up the loading message ('sent' with a valid
\* form, 'auth-screen', 'success'), an interval timer is running afterwards.
C24_ProgressEnsuresPolling ==
    [][(loadingShown' /\ ~loadingShown) => activeIntervals' /= {}]_vars

\* C25: at most one interval timer is running, and it is the one
\* pollingInterval names.
C25_SingleInterval ==
    /\ Cardinality(activeIntervals) <= 1
    /\ activeIntervals \subseteq {pollingInterval}

\* C27: an order posted for a session id carries, in its payment
\* transaction, the amount and the currency of the checkout session that
\* GET /checkout opened with the provider under that id (sessions opened
\* with an amount greater than 0).
C27_OrderMatchesSession ==
    \A k \in 1..Len(orderCalls), i \in 1..Len(checkoutReqs) :
        ( /\ checkoutReqs[i].sessionId = orderCalls[k].order.checkoutId
          /\ PositiveAmount(checkoutReqs[i].query.amount) )
            => /\ orderCalls[k].order.transaction.amount
                    = TwoDecimal(checkoutReqs[i].checkoutData.amount.cents)
               /\ orderCalls[k].order.transaction.currency
                    = checkoutReqs[i].checkoutData.currency

====
